---- MODULE Spec2Model ----
(***************************************************************************)
(* Model of PropagateUploadEncrypted (src/libsync/propagateuploadencrypted *)
(* .cpp): the callback chain that prepares one file for upload into an     *)
(* end-to-end-encrypted folder.  Every slot of the class is one action;    *)
(* the network jobs the slots create are the elements of `jobs`, the       *)
(* QTimer::singleShot lambdas are the elements of `timers`.                *)
(***************************************************************************)
EXTENDS Integers, Sequences, FiniteSets, TLC

\* ------------------------------------------------------------------ bounds
\* The clock is observed in steps of the retry delay; it stops advancing
\* after MaxTicks steps (just beyond the five-minute ceiling).
MaxTicks == 62

\* ------------------------------------------------------- program constants
\* QTimer::singleShot(5000, ...)
RetryDelayMs == 5000
\* /* five minutes */ 1000 * 60 * 5
FiveMinutesMs == 1000 * 60 * 5

\* --------------------------------------------------------------- data sets
Empty == "empty"
\* _item->_file, as path components; the folder is its directory part.
ItemFile == <<"dir", "report.pdf">>
FolderPath == <<"dir">>
OtherPath == <<"dir", "sub">>
FileIds == {"id7", "id9"}
Tokens == {"tokA", "tokB"}
GeneratedKeys == {"keyNew"}
GeneratedIvs == {"ivNew"}
GeneratedNames == {"rnd20"}
GeneratedTags == {"tagNew"}

\* QFileInfo::path(): everything before the last component.
DirOf(p) == SubSeq(p, 1, Len(p) - 1)
\* QFileInfo::fileName(): the last component.
FileNameOf(p) == p[Len(p)]

\* A default-constructed EncryptedFile.
DefaultEncryptedFile ==
    [ originalFilename |-> <<>>, encryptedFilename |-> Empty,
      encryptionKey |-> Empty, initializationVector |-> Empty,
      authenticationTag |-> Empty, mimetype |-> Empty,
      fileVersion |-> 0, metadataKey |-> 0 ]

\* A record already present in the folder's metadata document.
StoredRecord(orig, enc) ==
    [ originalFilename |-> orig, encryptedFilename |-> enc,
      encryptionKey |-> "keyOld", initializationVector |-> "ivOld",
      authenticationTag |-> "tagOld", mimetype |-> "application/pdf",
      fileVersion |-> 2, metadataKey |-> 1 ]

\* The metadata documents the server may deliver: files() of each.
\* parsable = FALSE stands for a body FolderMetadata cannot parse (no files).
Documents ==
    { [parsable |-> TRUE,  files |-> <<>>],
      [parsable |-> TRUE,  files |-> <<StoredRecord(ItemFile, "xyz123")>>],
      [parsable |-> TRUE,  files |-> <<StoredRecord(<<"report.pdf">>, "xyz123")>>],
      [parsable |-> FALSE, files |-> <<>>] }

\* The directory listings the server may deliver: the list of paths and the
\* _folderInfos map (a set of <<path, fileId>> pairs).
Listings ==
    { [list |-> <<FolderPath>>, infos |-> {<<FolderPath, "id7">>}],
      [list |-> <<OtherPath, FolderPath>>,
       infos |-> {<<OtherPath, "id9">>, <<FolderPath, "id7">>}],
      [list |-> <<FolderPath>>, infos |-> {}],
      [list |-> <<>>, infos |-> {}] }

JobKinds == {"status", "lscol", "lock", "getmeta", "update", "unlock"}

VARIABLES
    started,                    \* start() has been called
    jobs,                       \* network jobs created and not yet answered
    timers,                     \* pending singleShot lambdas
    _currentLockingInProgress,  \* the in-flight marker
    _folderToken,
    _folderId,
    _folderLockFirstTry,        \* QElapsedTimer: -1 invalid, else its reading
    _metadata,                  \* files() of the FolderMetadata (none at first)
    _encryptedFile,
    _completeFileName,
    signals,                    \* signals emitted to the caller, in order
    issued,                     \* per job kind, the number of jobs started
    answered,                   \* per job kind, the responses seen (ok, err)
    timersScheduled,            \* number of singleShot calls made
    log,                        \* events observed (the qCDebug lines and the
                                \* outcomes of the external collaborators)
    lastUpdate,                 \* arguments of the last UpdateMetadataApiJob
    fetchedFiles,               \* files() of the document as it was fetched
    lockGranted,                \* <<fileId, token>> of the lock success seen
    crashed                     \* the process died (undefined behaviour)

vars == << started, jobs, timers, _currentLockingInProgress, _folderToken,
           _folderId, _folderLockFirstTry, _metadata, _encryptedFile,
           _completeFileName, signals, issued, answered, timersScheduled, log,
           lastUpdate, fetchedFiles, lockGranted, crashed >>

\* A started network job: its kind and the arguments of its constructor.
Job(kind, path, fileId, token, body) ==
    [kind |-> kind, path |-> path, fileId |-> fileId, token |-> token,
     body |-> body]

JobsOf(kind) == {j \in jobs : j.kind = kind}

Signal(name, localPath, remotePath, size) ==
    [name |-> name, localPath |-> localPath, remotePath |-> remotePath,
     size |-> size]

Emitted(name) == \E i \in 1..Len(signals) : signals[i].name = name

Ok(kind) == [answered EXCEPT ![kind].ok = @ + 1]
Err(kind) == [answered EXCEPT ![kind].err = @ + 1]

\* QElapsedTimer::elapsed()
Elapsed == _folderLockFirstTry

\* The constructor initialises _propagator, _item and _metadata only;
\* _currentLockingInProgress is read by the retry lambda without any
\* earlier write, so its first value is whatever the build produces.
Init ==
    /\ started = FALSE
    /\ jobs = {}
    /\ timers = {}
    /\ _currentLockingInProgress \in BOOLEAN
    /\ _folderToken = Empty
    /\ _folderId = Empty
    /\ _folderLockFirstTry = -1
    /\ _metadata = <<>>
    /\ _encryptedFile = DefaultEncryptedFile
    /\ _completeFileName = <<>>
    /\ signals = <<>>
    /\ issued = [k \in JobKinds |-> 0]
    /\ answered = [k \in JobKinds |-> [ok |-> 0, err |-> 0]]
    /\ timersScheduled = 0
    /\ log = {}
    /\ lastUpdate = Job(Empty, <<>>, Empty, Empty, <<>>)
    /\ fetchedFiles = <<>>
    /\ lockGranted = <<Empty, Empty>>
    /\ crashed = FALSE

\* start(): create and start the GetFolderEncryptStatusJob.
Start ==
    /\ ~started /\ ~crashed
    /\ started' = TRUE
    /\ jobs' = jobs \cup {Job("status", DirOf(ItemFile), Empty, Empty, <<>>)}
    /\ issued' = [issued EXCEPT !["status"] = @ + 1]
    /\ UNCHANGED << timers, _currentLockingInProgress, _folderToken, _folderId,
                    _folderLockFirstTry, _metadata, _encryptedFile,
                    _completeFileName, signals, answered, timersScheduled, log,
                    lastUpdate, fetchedFiles, lockGranted, crashed >>

\* A gate that lists the folder whatever the status says.
ListsFolder_Always(isEncrypted) == TRUE

\* A gate that falls back whatever the status says.
ListsFolder_Never(isEncrypted) == FALSE

\* The branch of slotFolderEncryptedStatusFetched: list the folder when it
\* is encrypted, fall back otherwise.
ListsFolder(isEncrypted) == isEncrypted

\* A slot whose fallback is not in an else branch: it always signals.
slotFolderEncryptedStatusFetched_FallsThrough(job, isEncrypted) ==
    /\ ~crashed
    /\ job \in JobsOf("status")
    /\ answered' = Ok("status")
    /\ IF isEncrypted
         THEN /\ jobs' = (jobs \ {job}) \cup {Job("lscol", job.path, Empty, Empty, <<>>)}
              /\ issued' = [issued EXCEPT !["lscol"] = @ + 1]
         ELSE /\ jobs' = jobs \ {job}
              /\ issued' = issued
    /\ signals' = Append(signals, Signal("folerNotEncrypted", <<>>, <<>>, 0))
    /\ log' = log \cup {IF isEncrypted THEN "StatusEncrypted" ELSE "StatusNotEncrypted"}
    /\ UNCHANGED << started, timers, _currentLockingInProgress, _folderToken,
                    _folderId, _folderLockFirstTry, _metadata, _encryptedFile,
                    _completeFileName, timersScheduled, lastUpdate,
                    fetchedFiles, lockGranted, crashed >>

\* slotFolderEncryptedStatusFetched(folder, isEncrypted)
slotFolderEncryptedStatusFetched(job, isEncrypted) ==
    /\ ~crashed
    /\ job \in JobsOf("status")
    /\ answered' = Ok("status")
    /\ IF ListsFolder(isEncrypted)
         THEN /\ jobs' = (jobs \ {job}) \cup {Job("lscol", job.path, Empty, Empty, <<>>)}
              /\ issued' = [issued EXCEPT !["lscol"] = @ + 1]
              /\ signals' = signals
         ELSE /\ jobs' = jobs \ {job}
              /\ issued' = issued
              /\ signals' = Append(signals, Signal("folerNotEncrypted", <<>>, <<>>, 0))
    /\ log' = log \cup {IF isEncrypted THEN "StatusEncrypted" ELSE "StatusNotEncrypted"}
    /\ UNCHANGED << started, timers, _currentLockingInProgress, _folderToken,
                    _folderId, _folderLockFirstTry, _metadata, _encryptedFile,
                    _completeFileName, timersScheduled, lastUpdate, fetchedFiles, lockGranted, crashed >>

\* An error slot that starts the status check again.
slotFolderEncryptedStatusError_Retry(job) ==
    /\ ~crashed
    /\ job \in JobsOf("status")
    /\ jobs' = jobs
    /\ issued' = [issued EXCEPT !["status"] = @ + 1]
    /\ answered' = Err("status")
    /\ log' = log \cup {"StatusError"}
    /\ UNCHANGED << started, timers, _currentLockingInProgress, _folderToken,
                    _folderId, _folderLockFirstTry, _metadata, _encryptedFile,
                    _completeFileName, signals, timersScheduled,
                    lastUpdate, fetchedFiles, lockGranted, crashed >>

\* slotFolderEncryptedStatusError(error): logs and returns.
slotFolderEncryptedStatusError(job) ==
    /\ ~crashed
    /\ job \in JobsOf("status")
    /\ jobs' = jobs \ {job}
    /\ answered' = Err("status")
    /\ log' = log \cup {"StatusError"}
    /\ UNCHANGED << started, timers, _currentLockingInProgress, _folderToken,
                    _folderId, _folderLockFirstTry, _metadata, _encryptedFile,
                    _completeFileName, signals, issued, timersScheduled,
                    lastUpdate, fetchedFiles, lockGranted, crashed >>

\* QHash::value(key): the mapped value, or a default-constructed one.
FolderInfoFileId(infos, path) ==
    IF \E e \in infos : e[1] = path
      THEN (CHOOSE e \in infos : e[1] = path)[2]
      ELSE Empty

\* A lock attempt that starts the metadata fetch without waiting.
slotTryLock_AndFetch(fileId, otherJobs) ==
    /\ jobs' = otherJobs \cup {Job("lock", <<>>, fileId, Empty, <<>>),
                               Job("getmeta", <<>>, fileId, Empty, <<>>)}
    /\ issued' = [issued EXCEPT !["lock"] = @ + 1, !["getmeta"] = @ + 1]

\* slotTryLock(fileId): create and start a LockEncryptFolderApiJob.
slotTryLock(fileId, otherJobs) ==
    /\ jobs' = otherJobs \cup {Job("lock", <<>>, fileId, Empty, <<>>)}
    /\ issued' = [issued EXCEPT !["lock"] = @ + 1]

\* slotFolderEncryptedIdReceived(list): list.first() of a non-empty list.
slotFolderEncryptedIdReceived(job, listing) ==
    /\ ~crashed
    /\ job \in JobsOf("lscol")
    /\ listing.list # <<>>
    /\ answered' = Ok("lscol")
    /\ _folderLockFirstTry' = 0
    /\ slotTryLock(FolderInfoFileId(listing.infos, Head(listing.list)), jobs \ {job})
    /\ log' = log \cup {IF \E e \in listing.infos : e[1] = job.path
                          THEN "ListingHasFolder" ELSE "ListingLacksFolder"}
    /\ UNCHANGED << started, timers, _currentLockingInProgress, _folderToken,
                    _folderId, _metadata, _encryptedFile, _completeFileName,
                    signals, timersScheduled, lastUpdate, fetchedFiles, lockGranted, crashed >>

\* slotFolderEncryptedIdReceived(list) with an empty list: list.first() is
\* undefined; the build either dies there or goes on with whatever it read.
slotFolderEncryptedIdReceivedEmpty(job, listing, garbage) ==
    /\ ~crashed
    /\ job \in JobsOf("lscol")
    /\ listing.list = <<>>
    /\ answered' = Ok("lscol")
    /\ log' = log \cup {"ListingLacksFolder"}
    /\ \/ /\ crashed' = TRUE
          /\ jobs' = jobs \ {job}
          /\ UNCHANGED << issued, _folderLockFirstTry >>
       \/ /\ crashed' = FALSE
          /\ _folderLockFirstTry' = 0
          /\ slotTryLock(garbage, jobs \ {job})
    /\ UNCHANGED << started, timers, _currentLockingInProgress, _folderToken,
                    _folderId, _metadata, _encryptedFile, _completeFileName,
                    signals, timersScheduled, lastUpdate, fetchedFiles, lockGranted >>

\* slotFolderEncryptedIdError(reply): logs and returns.
slotFolderEncryptedIdError(job) ==
    /\ ~crashed
    /\ job \in JobsOf("lscol")
    /\ jobs' = jobs \ {job}
    /\ answered' = Err("lscol")
    /\ log' = log \cup {"IdError"}
    /\ UNCHANGED << started, timers, _currentLockingInProgress, _folderToken,
                    _folderId, _folderLockFirstTry, _metadata, _encryptedFile,
                    _completeFileName, signals, issued, timersScheduled,
                    lastUpdate, fetchedFiles, lockGranted, crashed >>

\* A slot that forgets to store the token it was given.
StoredToken_Stale(token) == _folderToken

\* _folderToken = token;
StoredToken(token) == token

\* slotFolderLockedSuccessfully(fileId, token)
slotFolderLockedSuccessfully(job, token) ==
    /\ ~crashed
    /\ job \in JobsOf("lock")
    /\ answered' = Ok("lock")
    /\ _currentLockingInProgress' = TRUE
    /\ _folderToken' = StoredToken(token)
    /\ _folderId' = job.fileId
    /\ lockGranted' = <<job.fileId, token>>
    /\ jobs' = (jobs \ {job}) \cup {Job("getmeta", <<>>, job.fileId, Empty, <<>>)}
    /\ issued' = [issued EXCEPT !["getmeta"] = @ + 1]
    /\ UNCHANGED << started, timers, _folderLockFirstTry, _metadata,
                    _encryptedFile, _completeFileName, signals, timersScheduled,
                    log, lastUpdate, fetchedFiles, crashed >>

\* An error slot that schedules the lambda and also retries at once.
slotFolderLockedError_AlsoRetries(job) ==
    /\ ~crashed
    /\ job \in JobsOf("lock")
    /\ jobs' = jobs
    /\ issued' = [issued EXCEPT !["lock"] = @ + 1]
    /\ answered' = Err("lock")
    /\ timers' = timers \cup {[due |-> Elapsed + RetryDelayMs, fileId |-> job.fileId]}
    /\ timersScheduled' = timersScheduled + 1
    /\ log' = log \cup {"LockError"}
    /\ UNCHANGED << started, _currentLockingInProgress, _folderToken, _folderId,
                    _folderLockFirstTry, _metadata, _encryptedFile,
                    _completeFileName, signals, lastUpdate, fetchedFiles,
                    lockGranted, crashed >>

\* slotFolderLockedError(fileId, httpErrorCode): schedule the retry lambda.
slotFolderLockedError(job) ==
    /\ ~crashed
    /\ job \in JobsOf("lock")
    /\ jobs' = jobs \ {job}
    /\ answered' = Err("lock")
    /\ timers' = timers \cup {[due |-> Elapsed + RetryDelayMs, fileId |-> job.fileId]}
    /\ timersScheduled' = timersScheduled + 1
    /\ log' = log \cup {"LockError"}
    /\ UNCHANGED << started, _currentLockingInProgress, _folderToken, _folderId,
                    _folderLockFirstTry, _metadata, _encryptedFile,
                    _completeFileName, signals, issued, lastUpdate, fetchedFiles, lockGranted, crashed >>

\* The lambda's first test: if (!_currentLockingInProgress) return;
RetryAbandoned(marker) == ~marker

\* A budget test that lets one more retry through.
RetryBudgetExhausted_Late(elapsed) == elapsed > FiveMinutesMs + RetryDelayMs

\* The lambda's second test: if (elapsed() > five minutes) return;
RetryBudgetExhausted(elapsed) == elapsed > FiveMinutesMs

\* The lambda given to QTimer::singleShot in slotFolderLockedError.
RetryTimerFired(t) ==
    /\ ~crashed
    /\ t \in timers
    /\ Elapsed >= t.due
    /\ timers' = timers \ {t}
    /\ IF RetryAbandoned(_currentLockingInProgress)
         THEN /\ log' = log \cup {"RetryAbortNotInProgress"}
              /\ UNCHANGED << jobs, issued >>
         ELSE IF RetryBudgetExhausted(Elapsed)
           THEN /\ log' = log \cup {"RetryAbortTimeout"}
                /\ UNCHANGED << jobs, issued >>
           ELSE /\ log' = log \cup {"Retried"}
                /\ slotTryLock(t.fileId, jobs)
    /\ UNCHANGED << started, _currentLockingInProgress, _folderToken, _folderId,
                    _folderLockFirstTry, _metadata, _encryptedFile,
                    _completeFileName, signals, answered, timersScheduled,
                    lastUpdate, fetchedFiles, lockGranted, crashed >>

\* The GetMetadataApiJob ends without jsonReceived: slotFolderLockedSuccessfully
\* connects no slot to any other signal of the job, so nothing runs.
GetMetadataFailed(job) ==
    /\ ~crashed
    /\ job \in JobsOf("getmeta")
    /\ jobs' = jobs \ {job}
    /\ answered' = Err("getmeta")
    /\ log' = log \cup {"MetadataFetchFailed"}
    /\ UNCHANGED << started, timers, _currentLockingInProgress, _folderToken,
                    _folderId, _folderLockFirstTry, _metadata, _encryptedFile,
                    _completeFileName, signals, issued, timersScheduled,
                    lastUpdate, fetchedFiles, lockGranted, crashed >>

\* The for loop over _metadata->files(): the last record whose
\* originalFilename equals the item's file, else a default EncryptedFile.
RECURSIVE FindExisting(_, _)
FindExisting(files, acc) ==
    IF files = <<>> THEN acc
    ELSE FindExisting(Tail(files),
                      IF Head(files).originalFilename = ItemFile
                        THEN Head(files) ELSE acc)

\* "New encrypted file so set it all up!"
SetUpNew(ef, name) ==
    IF ef.encryptedFilename = Empty
      THEN [ef EXCEPT !.encryptedFilename = name,
                      !.fileVersion = 1,
                      !.metadataKey = 1,
                      !.originalFilename = <<FileNameOf(ItemFile)>>,
                      !.mimetype = "application/pdf"]
      ELSE ef

\* FolderMetadata::addEncryptedFile: the record replaces any record of the
\* same originalFilename, else it is appended.
AddEncryptedFile(files, ef) ==
    SelectSeq(files, LAMBDA f : f.originalFilename # ef.originalFilename)
        \o <<ef>>

\* EncryptionHelper::fileEncryption(key, iv, input, output, tag): the tag
\* it returns in `tag`; on failure `tag` keeps the empty QByteArray it was
\* declared with.
FileEncryptionTag(encOk, t) == IF encOk THEN t ELSE Empty

\* encryptedFile.authenticationTag = tag;
WithTag(ef, tag) == [ef EXCEPT !.authenticationTag = tag]

\* slotFolderEncriptedMetadataReceived(json, statusCode): merge the record,
\* encrypt the file, store the tag, start the UpdateMetadataApiJob.
slotFolderEncriptedMetadataReceived(job, doc, key, iv, name, encOk, t) ==
    /\ ~crashed
    /\ job \in JobsOf("getmeta")
    /\ answered' = Ok("getmeta")
    /\ LET found == FindExisting(doc.files, DefaultEncryptedFile)
           keyed == [found EXCEPT !.encryptionKey = key,
                                  !.initializationVector = iv]
           ready == SetUpNew(keyed, name)
           tag == FileEncryptionTag(encOk, t)
           final == WithTag(ready, tag)
           update == Job("update", <<>>, _folderId,
                         _folderToken, AddEncryptedFile(doc.files, final))
       IN /\ _completeFileName' = <<"tmp", ready.encryptedFilename>>
          /\ _metadata' = AddEncryptedFile(doc.files, final)
          /\ _encryptedFile' = final
          /\ jobs' = (jobs \ {job}) \cup {update}
          /\ lastUpdate' = update
          /\ fetchedFiles' = doc.files
    /\ issued' = [issued EXCEPT !["update"] = @ + 1]
    /\ log' = log \cup (IF doc.parsable THEN {} ELSE {"MetadataUnparsable"})
                  \cup (IF encOk THEN {"EncryptionOk"} ELSE {"EncryptionFailed"})
    /\ UNCHANGED << started, timers, _currentLockingInProgress, _folderToken,
                    _folderId, _folderLockFirstTry, signals, timersScheduled,
                    lockGranted, crashed >>

\* A remote path that keeps the plain file name.
RemotePath_PlainName(complete) == ItemFile

\* The second argument of finalized: the item's directory, '/', and the
\* file name of the ciphertext file.
RemotePath(complete) == DirOf(ItemFile) \o <<FileNameOf(complete)>>

\* slotUpdateMetadataSuccess(fileId): emit finalized.
slotUpdateMetadataSuccess(job) ==
    /\ ~crashed
    /\ job \in JobsOf("update")
    /\ jobs' = jobs \ {job}
    /\ answered' = Ok("update")
    /\ signals' = Append(signals,
          Signal("finalized",
                 DirOf(_completeFileName) \o <<FileNameOf(_completeFileName)>>,
                 RemotePath(_completeFileName),
                 IF "EncryptionFailed" \in log THEN 0 ELSE 1))
    /\ UNCHANGED << started, timers, _currentLockingInProgress, _folderToken,
                    _folderId, _folderLockFirstTry, _metadata, _encryptedFile,
                    _completeFileName, issued, timersScheduled, log,
                    lastUpdate, fetchedFiles, lockGranted, crashed >>

\* slotUpdateMetadataError(fileId, httpErrorResponse): logs and returns.
slotUpdateMetadataError(job) ==
    /\ ~crashed
    /\ job \in JobsOf("update")
    /\ jobs' = jobs \ {job}
    /\ answered' = Err("update")
    /\ log' = log \cup {"UpdateMetadataError"}
    /\ UNCHANGED << started, timers, _currentLockingInProgress, _folderToken,
                    _folderId, _folderLockFirstTry, _metadata, _encryptedFile,
                    _completeFileName, signals, issued, timersScheduled,
                    lastUpdate, fetchedFiles, lockGranted, crashed >>

\* Time passes: the reading of the started QElapsedTimer grows.
Tick ==
    /\ ~crashed
    /\ _folderLockFirstTry >= 0
    /\ _folderLockFirstTry < MaxTicks * RetryDelayMs
    /\ _folderLockFirstTry' = _folderLockFirstTry + RetryDelayMs
    /\ UNCHANGED << started, jobs, timers, _currentLockingInProgress,
                    _folderToken, _folderId, _metadata, _encryptedFile,
                    _completeFileName, signals, issued, answered,
                    timersScheduled, log, lastUpdate, fetchedFiles, lockGranted, crashed >>

Next ==
    \/ Start
    \/ \E j \in jobs, b \in BOOLEAN : slotFolderEncryptedStatusFetched(j, b)
    \/ \E j \in jobs : slotFolderEncryptedStatusError(j)
    \/ \E j \in jobs, l \in Listings : slotFolderEncryptedIdReceived(j, l)
    \/ \E j \in jobs, l \in Listings, g \in FileIds \cup {Empty} :
          slotFolderEncryptedIdReceivedEmpty(j, l, g)
    \/ \E j \in jobs : slotFolderEncryptedIdError(j)
    \/ \E j \in jobs, t \in Tokens : slotFolderLockedSuccessfully(j, t)
    \/ \E j \in jobs : slotFolderLockedError(j)
    \/ \E t \in timers : RetryTimerFired(t)
    \/ \E j \in jobs : GetMetadataFailed(j)
    \/ \E j \in jobs, d \in Documents, k \in GeneratedKeys, i \in GeneratedIvs,
          n \in GeneratedNames, e \in BOOLEAN, t \in GeneratedTags :
          slotFolderEncriptedMetadataReceived(j, d, k, i, n, e, t)
    \/ \E j \in jobs : slotUpdateMetadataSuccess(j)
    \/ \E j \in jobs : slotUpdateMetadataError(j)
    \/ Tick

Spec == Init /\ [][Next]_vars

\* ------------------------------------------------------------------ claims

\* A signal other than finalized and folerNotEncrypted reached the caller.
FailureReported ==
    \E i \in 1..Len(signals) :
        signals[i].name \notin {"finalized", "folerNotEncrypted"}

\* This step is the retry lambda issuing a lock request.
RetryStep ==
    /\ timers' # timers
    /\ issued'["lock"] = issued["lock"] + 1

\* A retry lambda has returned without issuing a lock request.
RetryGivenUp ==
    "RetryAbortNotInProgress" \in log \/ "RetryAbortTimeout" \in log

\* C1: on a successful run (finalized emitted) the unlock request for the
\* held token has been issued before completion is reported.
C1_UnlockBeforeFinalized ==
    Emitted("finalized") => issued["unlock"] >= 1

\* C2: when the metadata update fails while the lock is held, an unlock
\* request is issued and the failure is reported to the caller.
C2_UpdateErrorUnlocksAndReports ==
    answered["update"].err >= 1 => (issued["unlock"] >= 1 /\ FailureReported)

C4_RetryIssuedAfterFailures ==
    ( /\ answered["lock"].err >= 1
      /\ timers = {}
      /\ Elapsed < FiveMinutesMs )
    => ( /\ issued["lock"] = answered["lock"].err + 1
         /\ timersScheduled = answered["lock"].err )

\* C5: when the retry budget is exhausted the task reports the timeout to
\* the caller and has issued no metadata fetch, update or unlock request.
C5_TimeoutReported ==
    "RetryAbortTimeout" \in log
    => ( /\ FailureReported
         /\ issued["getmeta"] = 0
         /\ issued["update"] = 0
         /\ issued["unlock"] = 0 )

\* C6: when the status check says the folder is not encrypted, the task
\* emits folerNotEncrypted and issues no listing, lock, metadata fetch,
\* metadata update or unlock request (and so runs no encryption).
C6_NotEncryptedFallsBack ==
    "StatusNotEncrypted" \in log
    => ( /\ Emitted("folerNotEncrypted")
         /\ \A k \in JobKinds \ {"status"} : issued[k] = 0
         /\ jobs = {}
         /\ "EncryptionOk" \notin log /\ "EncryptionFailed" \notin log )

\* C6 witness: the not-encrypted answer has been handled.
C6_FellBack ==
    /\ "StatusNotEncrypted" \in log
    /\ Emitted("folerNotEncrypted")
    /\ answered["status"].ok = 1

\* C7: when the metadata fetch fails or the document cannot be parsed, an
\* unlock request is issued and the failure is reported to the caller.
C7_MetadataFailureUnlocksAndReports ==
    ("MetadataFetchFailed" \in log \/ "MetadataUnparsable" \in log)
    => (issued["unlock"] >= 1 /\ FailureReported)

\* C8: when the encryption step fails, no metadata update request is issued.
C8_EncryptionFailureStops ==
    "EncryptionFailed" \in log => issued["update"] = 0

\* C9: in every metadata update request the record of this file carries a
\* non-empty authentication tag.
C9_UpdateCarriesTag ==
    \A j \in JobsOf("update") :
        \A i \in 1..Len(j.body) :
            j.body[i].originalFilename = _encryptedFile.originalFilename
            => j.body[i].authenticationTag # Empty

\* C10: when the status check returns an error, the failure is reported to
\* the caller and no further request is issued.
C10_StatusErrorReported ==
    "StatusError" \in log
    => ( /\ FailureReported
         /\ \A k \in JobKinds \ {"status"} : issued[k] = 0
         /\ issued["status"] = 1 )

\* C11: lock acquisition starts only when the listing has an entry for the
\* path queried; a listing error or a listing without that entry ends the
\* task with a reported failure and no lock request; the clock is started
\* before the first lock request.
C11_ResolutionGuardsLock ==
    /\ ("ListingLacksFolder" \in log \/ "IdError" \in log)
          => (issued["lock"] = 0 /\ FailureReported)
    /\ issued["lock"] >= 1 => _folderLockFirstTry >= 0

\* The records of the fetched document stored under the name `name`.
FetchedFor(name) ==
    {i \in 1..Len(fetchedFiles) : fetchedFiles[i].originalFilename = name}

\* C12 for one reading of "the task's file name": a fetched record of that
\* name is reused (encryptedFilename, mimetype, fileVersion) with a key and
\* IV of this upload; without one, the written record has a fresh
\* encryptedFilename, that name as originalFilename and fileVersion 1.
C12_MergeFor(name) ==
    issued["update"] >= 1 =>
      IF FetchedFor(name) # {}
        THEN \E i \in FetchedFor(name) :
               /\ _encryptedFile.encryptedFilename = fetchedFiles[i].encryptedFilename
               /\ _encryptedFile.mimetype = fetchedFiles[i].mimetype
               /\ _encryptedFile.fileVersion = fetchedFiles[i].fileVersion
               /\ _encryptedFile.encryptionKey \in GeneratedKeys
               /\ _encryptedFile.initializationVector \in GeneratedIvs
        ELSE /\ _encryptedFile.encryptedFilename \in GeneratedNames
             /\ _encryptedFile.originalFilename = name
             /\ _encryptedFile.fileVersion = 1

\* C12: the record written back reuses an existing record of the task's
\* file name and else is a new record under that name, the file name being
\* read as the name the code stores (report.pdf) or as the path the code
\* compares with (dir/report.pdf).
C12_MergeReusesOrCreates ==
    C12_MergeFor(<<FileNameOf(ItemFile)>>) \/ C12_MergeFor(ItemFile)

\* C13: finalized is emitted when, and only when, the write-back success
\* has been seen; its remote path is the item's directory joined with the
\* encryptedFilename of the record written back, and its local path is the
\* ciphertext file the encryption step wrote.
C13_FinalizedAfterWriteBack ==
    /\ Emitted("finalized") <=> answered["update"].ok >= 1
    /\ \A i \in 1..Len(signals) :
          signals[i].name = "finalized" =>
            /\ lastUpdate.kind = "update"
            /\ \E k \in 1..Len(lastUpdate.body) :
                  /\ lastUpdate.body[k] = _encryptedFile
                  /\ signals[i].remotePath =
                        DirOf(ItemFile) \o <<lastUpdate.body[k].encryptedFilename>>
                  /\ signals[i].localPath =
                        <<"tmp", lastUpdate.body[k].encryptedFilename>>

\* C13 witness: the run of scenario B has ended with finalized.
C13_HappyPathFinalized ==
    /\ Emitted("finalized")
    /\ "ListingHasFolder" \in log
    /\ issued["lock"] = 1
    /\ fetchedFiles = <<>>
    /\ "EncryptionOk" \in log
    /\ "MetadataUnparsable" \notin log
    /\ answered["update"].ok = 1

\* C14: every metadata update request carries the folder id and the lock
\* token of the task's own lock success, and no metadata fetch or update
\* request is issued before a lock success has been seen.
C14_UpdateCarriesOwnLock ==
    /\ \A j \in JobsOf("update") \cup
                 (IF lastUpdate.kind = "update" THEN {lastUpdate} ELSE {}) :
          /\ answered["lock"].ok >= 1
          /\ <<j.fileId, j.token>> = lockGranted
          /\ j.token \in Tokens
    /\ (issued["getmeta"] >= 1 \/ issued["update"] >= 1)
          => answered["lock"].ok >= 1

\* C14 witness: an update request is out, after a retried lock attempt.
C14_UpdateIssuedWithToken ==
    /\ JobsOf("update") # {}
    /\ lockGranted[2] \in Tokens
    /\ issued["lock"] >= 2

\* The encryption step has run.
EncryptionRan == "EncryptionOk" \in log \/ "EncryptionFailed" \in log

\* C15: the stages are ordered status check, folder listing, lock,
\* metadata fetch, encryption, metadata update, completion: no request of
\* a stage is issued before the response of the stage before it was seen.
C15_StagesInOrder ==
    /\ issued["lscol"] >= 1 => answered["status"].ok >= 1
    /\ issued["lock"] >= 1 => answered["lscol"].ok >= 1
    /\ issued["getmeta"] >= 1 => answered["lock"].ok >= 1
    /\ EncryptionRan => answered["getmeta"].ok >= 1
    /\ issued["update"] >= 1 => EncryptionRan
    /\ Emitted("finalized") => answered["update"].ok >= 1
    /\ \A j \in jobs :
          /\ j.kind = "status" => issued["lscol"] = 0
          /\ j.kind = "lscol" => issued["lock"] = 0
          /\ j.kind = "lock" => issued["getmeta"] = 0
          /\ j.kind = "getmeta" => issued["update"] = 0
          /\ j.kind = "update" => ~Emitted("finalized")
    /\ timers # {} => issued["getmeta"] = 0

\* C15 witness: all stages have run, the lock stage with retries.
C15_AllStagesRan ==
    /\ Emitted("finalized")
    /\ timersScheduled >= 2
    /\ \A k \in JobKinds \ {"unlock"} : answered[k].ok >= 1

\* C16: once the status check has said the folder is encrypted, the task
\* never emits folerNotEncrypted.
C16_NoFallbackOnceEncrypted ==
    "StatusEncrypted" \in log => ~Emitted("folerNotEncrypted")

\* C16 witness: the folder is encrypted and a later stage has failed.
C16_EncryptedThenFailed ==
    /\ "StatusEncrypted" \in log
    /\ answered["update"].err >= 1
    /\ signals = <<>>

\* C17: the status check, the folder listing, the metadata fetch, the
\* encryption and the metadata update are each issued at most once; only
\* the lock request is repeated.
C17_OnlyLockRetried ==
    /\ \A k \in {"status", "lscol", "getmeta", "update"} :
          /\ issued[k] <= 1
          /\ answered[k].ok + answered[k].err <= 1
    /\ issued["lock"] >= 2 => "Retried" \in log

\* C17 witness: the lock was retried and every other stage ran once, the
\* last one failing.
C17_LockRetriedOthersOnce ==
    /\ issued["lock"] >= 3
    /\ \A k \in {"status", "lscol", "getmeta", "update"} : issued[k] = 1
    /\ answered["update"].err = 1

\* C18: when a lock request has succeeded, the lock token is stored and
\* the in-flight marker is cleared (so that a retry timer firing later
\* would issue no lock request).
C18_MarkerClearedOnSuccess ==
    answered["lock"].ok >= 1
      => (_folderToken = lockGranted[2] /\ ~_currentLockingInProgress)

\* The lock requests issued and not yet answered.
LockRequestsOutstanding ==
    issued["lock"] - answered["lock"].ok - answered["lock"].err

\* C19: lock requests outstanding plus retry timers pending is at most
\* one, and after a lock success neither is outstanding.
C19_OneLockAttemptInFlight ==
    /\ LockRequestsOutstanding + Cardinality(timers) <= 1
    /\ LockRequestsOutstanding = Cardinality(JobsOf("lock"))
    /\ answered["lock"].ok >= 1
          => (LockRequestsOutstanding = 0 /\ timers = {})

\* C19 witness: the lock was granted after two failed attempts.
C19_GrantedAfterRetries ==
    /\ answered["lock"].err >= 2
    /\ answered["lock"].ok = 1
    /\ timers = {}

\* C20: the task emits at most one outcome signal: finalized and
\* folerNotEncrypted exclude each other and neither is emitted twice.
C20_AtMostOneOutcome ==
    Len(signals) <= 1

\* C20 witness: a run that retried the lock has emitted its one signal.
C20_OneOutcomeEmitted ==
    /\ Len(signals) = 1
    /\ signals[1].name = "finalized"
    /\ "Retried" \in log
    /\ jobs = {} /\ timers = {}
====
